---- MODULE Spec2Model ----
(***************************************************************************)
(* Day 6 of AnthonyVH/aoc-2024: the StepTable jump index, the slow and     *)
(* fast guard walks, and the parallel obstruction search                   *)
(* (src/src/day_06.rs, src/util/src/coord.rs).                             *)
(*                                                                         *)
(* Coordinates are pairs <<row, col>> of (signed) integers, directions are *)
(* their DirectionUtils::index 0..3 (North, East, South, West).  A matrix  *)
(* is a function from the cells of the room to bytes.                      *)
(*                                                                         *)
(* Unchecked accesses (get_unchecked / get_unchecked_mut) at a coordinate  *)
(* outside the matrix are undefined behaviour.  The model keeps the        *)
(* outcomes a build can produce side by side:                              *)
(*   - the access traps (overflow check of a debug build, a fault): the    *)
(*     program panics;                                                     *)
(*   - the access goes through with wrapping usize arithmetic: the         *)
(*     column-major linear index row + col * nrows either lands inside     *)
(*     the matrix buffer, on another cell of the same matrix, or outside   *)
(*     it, where a read yields some byte (GarbageBytes) and a write        *)
(*     changes nothing the program looks at.                               *)
(***************************************************************************)
EXTENDS Integers, Sequences, FiniteSets, TLC

----------------------------------------------------------------------------
(* Bounds of the model. *)

MaxDim == 2        \* rows and cols of the generated rooms range over 1..MaxDim
MaxObs == 2        \* at most this many obstructions in a generated room
NumWorkers == 2    \* jobs of the parallel search that run at a time
MaxOps == 4        \* add/remove calls made on a bare StepTable

(* Program constants. *)

MARKER == 255          \* StepTable::MARKER = u8::MAX
NUM_DIRECTIONS == 4    \* DirectionUtils::NUM_DIRECTIONS

(* Bytes an unchecked read outside the matrix buffer can yield. *)
GarbageBytes == {0, 1, 254, 255}

----------------------------------------------------------------------------
(* util::Direction with DirectionUtils, util::Coord. *)

Dirs == 0 .. (NUM_DIRECTIONS - 1)
North == 0
East == 1
South == 2
West == 3

(* A turn the other way round. *)
turnLeft(d) == CASE d = North -> West [] d = West -> South [] d = South -> East [] OTHER -> North

turn(d) == CASE d = North -> East [] d = East -> South [] d = South -> West [] OTHER -> North

DirCoord(d) == CASE d = East -> <<0, 1>> [] d = West -> <<0, -1>> [] d = North -> <<-1, 0>> [] OTHER -> <<1, 0>>

CoordAdd(a, b) == <<a[1] + b[1], a[2] + b[2]>>

CoordMul(k, a) == <<k * a[1], k * a[2]>>

has_negatives(p) == (p[1] < 0) \/ (p[2] < 0)

bounded_by(p, bound) == (p[1] < bound[1]) /\ (p[2] < bound[2])

(* The cells of a rows x cols matrix. *)
Cells(size) == (0 .. (size[1] - 1)) \X (0 .. (size[2] - 1))

(* nalgebra's checked indexing (Index, get, get_mut) after as_pair's cast  *)
(* to usize: a negative coordinate becomes huge and is out of bounds.      *)
Contained(p, size) == p \in Cells(size)

(* nalgebra's unchecked indexing: the element at linear index              *)
(* row + col * nrows (column-major, wrapping usize arithmetic).            *)
LinearIndex(p, size) == p[1] + p[2] * size[1]

InBuffer(l, size) == (0 <= l) /\ (l < size[1] * size[2])

CellOfLinear(l, size) == <<l % size[1], l \div size[1]>>

get_unchecked(m, p, size, garbage) ==
    IF InBuffer(LinearIndex(p, size), size)
    THEN m[CellOfLinear(LinearIndex(p, size), size)]
    ELSE garbage

get_unchecked_mut(m, p, size, value) ==
    IF InBuffer(LinearIndex(p, size), size)
    THEN [m EXCEPT ![CellOfLinear(LinearIndex(p, size), size)] = value]
    ELSE m

(* u8 arithmetic: the wrapped value; an overflowing sum panics in a build  *)
(* with overflow checks.                                                   *)
U8(x) == x % 256

Overflows(x) == x > 255

----------------------------------------------------------------------------
(* StepTable *)

(* A faulty variant: the distance to the edge without the step that      *)
(* leaves the grid.                                                        *)
StepTableNewShort(rows, cols) ==
    [ steps_to_obstruction |->
        [ d \in Dirs |->
            [ p \in Cells(<<rows, cols>>) |->
                CASE d = North -> p[1]
                  [] d = East  -> cols - p[2] - 1
                  [] d = South -> rows - p[1] - 1
                  [] OTHER     -> p[2] ] ],
      room_size |-> <<rows, cols>> ]

StepTableNew(rows, cols) ==
    [ steps_to_obstruction |->
        [ d \in Dirs |->
            [ p \in Cells(<<rows, cols>>) |->
                CASE d = North -> p[1] + 1
                  [] d = East  -> cols - p[2]
                  [] d = South -> rows - p[1]
                  [] OTHER     -> p[2] + 1 ] ],
      room_size |-> <<rows, cols>> ]

(* add_obstruction, read phase: steps_to_existing[dir_idx]. *)
StepsToExisting(t, pos, d, garbage) ==
    LET backward_dir == turn(turn(d))
        prev_pos == CoordAdd(pos, DirCoord(backward_dir))
    IN  IF ~bounded_by(prev_pos, t.room_size)
        THEN MARKER
        ELSE get_unchecked(t.steps_to_obstruction[backward_dir], prev_pos,
                           t.room_size, garbage)

(* add_obstruction, write phase of one direction: for step in 0..=last. *)
RECURSIVE AddWrite(_, _, _, _, _, _)
AddWrite(m, pos, backward_step, size, step, last) ==
    IF step > last
    THEN m
    ELSE LET prev_pos == CoordAdd(pos, CoordMul(step + 1, backward_step))
         IN  IF ~bounded_by(prev_pos, size)
             THEN m
             ELSE AddWrite(get_unchecked_mut(m, prev_pos, size, step),
                           pos, backward_step, size, step + 1, last)

(* Each step of the write loop moves the linear index by at least one, so  *)
(* the steps past rows * cols write outside the buffer: the loop is        *)
(* evaluated up to there.                                                  *)
LastWrite(existing, size) ==
    IF existing < size[1] * size[2] THEN existing ELSE size[1] * size[2]

add_obstruction(t, pos, garbage) ==
    [ t EXCEPT !.steps_to_obstruction =
        [ d \in Dirs |->
            LET existing == StepsToExisting(t, pos, d, garbage)
                written ==
                    IF existing = MARKER
                    THEN t.steps_to_obstruction[d]
                    ELSE AddWrite(t.steps_to_obstruction[d], pos,
                                  DirCoord(turn(turn(d))), t.room_size, 0,
                                  LastWrite(existing, t.room_size))
            IN  [written EXCEPT ![pos] = MARKER] ] ]

(* add_obstruction makes an unchecked access outside the matrix. *)
AddOutOfBounds(t, pos, garbage) ==
    \E d \in Dirs :
        LET backward_step == DirCoord(turn(turn(d)))
            prev_pos == CoordAdd(pos, backward_step)
            existing == StepsToExisting(t, pos, d, garbage)
        IN  \/ bounded_by(prev_pos, t.room_size) /\ ~Contained(prev_pos, t.room_size)
            \/ /\ existing # MARKER
               /\ \E step \in 0 .. existing :
                    /\ \A s \in 0 .. step :
                         bounded_by(CoordAdd(pos, CoordMul(s + 1, backward_step)), t.room_size)
                    /\ ~Contained(CoordAdd(pos, CoordMul(step + 1, backward_step)), t.room_size)

(* remove_obstruction, read phase: update_info[dir_idx] = (cells_to_update, *)
(* steps_offset), as the sums before they are cut to u8.                    *)
CellsToUpdate(t, pos, d) ==
    LET backward_dir == turn(turn(d))
        prev_pos == CoordAdd(pos, DirCoord(backward_dir))
    IN  1 + ( IF has_negatives(prev_pos)
              THEN 0
              ELSE IF ~Contained(prev_pos, t.room_size)
                   THEN 0
                   ELSE IF t.steps_to_obstruction[backward_dir][prev_pos] = MARKER
                        THEN 0
                        ELSE t.steps_to_obstruction[backward_dir][prev_pos] + 1 )

StepsOffset(t, pos, d, garbage) ==
    LET next_pos == CoordAdd(pos, DirCoord(d))
    IN  IF ~bounded_by(next_pos, t.room_size)
        THEN 1
        ELSE LET steps == get_unchecked(t.steps_to_obstruction[d], next_pos,
                                        t.room_size, garbage)
             IN  IF steps = MARKER THEN 0 ELSE steps + 1

(* remove_obstruction, write phase of one direction: for step in 0..cells. *)
RECURSIVE RemoveWrite(_, _, _, _, _, _, _)
RemoveWrite(m, pos, backward_step, size, step, cells_to_update, steps_offset) ==
    IF step >= cells_to_update
    THEN m
    ELSE LET prev_pos == CoordAdd(pos, CoordMul(step, backward_step))
         IN  IF has_negatives(prev_pos)
             THEN m
             ELSE IF ~Contained(prev_pos, size)
                  THEN m
                  ELSE RemoveWrite([m EXCEPT ![prev_pos] = U8(steps_offset + step)],
                                   pos, backward_step, size, step + 1,
                                   cells_to_update, steps_offset)

remove_obstruction(t, pos, garbage) ==
    [ t EXCEPT !.steps_to_obstruction =
        [ d \in Dirs |->
            RemoveWrite(t.steps_to_obstruction[d], pos, DirCoord(turn(turn(d))),
                        t.room_size, 0,
                        U8(CellsToUpdate(t, pos, d)),
                        U8(StepsOffset(t, pos, d, garbage))) ] ]

(* The assertion of remove_obstruction's read phase. *)
RemoveAssertion(t, pos) ==
    \A d \in Dirs : t.steps_to_obstruction[d][pos] = MARKER

(* The read phase handles the directions in turn, each starting with its   *)
(* assertion: an unchecked read outside the matrix is made before the      *)
(* assertion that fails, when it belongs to a direction whose assertion    *)
(* and all earlier ones pass.                                              *)
RemoveOutOfBoundsBeforeAssert(t, pos) ==
    \E d \in Dirs :
        /\ \A e \in 0 .. d : t.steps_to_obstruction[e][pos] = MARKER
        /\ LET next_pos == CoordAdd(pos, DirCoord(d))
           IN  bounded_by(next_pos, t.room_size) /\ ~Contained(next_pos, t.room_size)

(* remove_obstruction makes an unchecked access outside the matrix. *)
RemoveOutOfBounds(t, pos) ==
    \E d \in Dirs :
        LET next_pos == CoordAdd(pos, DirCoord(d))
        IN  bounded_by(next_pos, t.room_size) /\ ~Contained(next_pos, t.room_size)

(* A u8 sum of remove_obstruction exceeds 255. *)
RemoveOverflows(t, pos, garbage) ==
    \E d \in Dirs :
        \/ Overflows(CellsToUpdate(t, pos, d))
        \/ Overflows(StepsOffset(t, pos, d, garbage))
        \/ \E step \in 0 .. (U8(CellsToUpdate(t, pos, d)) - 1) :
             /\ Contained(CoordAdd(pos, CoordMul(step, DirCoord(turn(turn(d))))), t.room_size)
             /\ Overflows(U8(StepsOffset(t, pos, d, garbage)) + step)

is_obstructed(t, pos) == t.steps_to_obstruction[0][pos] = MARKER

----------------------------------------------------------------------------
(* Parsing: <StepTable as FromStr>, <Guard as FromStr>, <Problem as FromStr>. *)
(* The text is a rectangular grid: rows lines of cols bytes, '#' on the      *)
(* cells of obs, '^' on start.                                               *)

(* The loop of StepTable::from_str over the bytes in row-major order, from   *)
(* byte k on; oob records an unchecked access outside the matrix.            *)
RECURSIVE FromStrLoop(_, _, _, _, _)
FromStrLoop(t, oob, in, k, garbage) ==
    IF k >= in.rows * in.cols
    THEN [table |-> t, oob |-> oob]
    ELSE LET pos == <<k \div in.cols, k % in.cols>>
         IN  IF pos \in in.obs
             THEN FromStrLoop(add_obstruction(t, pos, garbage),
                              oob \/ AddOutOfBounds(t, pos, garbage),
                              in, k + 1, garbage)
             ELSE FromStrLoop(t, oob, in, k + 1, garbage)

StepTableFromStr(in, garbage) ==
    FromStrLoop(StepTableNew(in.rows, in.cols), FALSE, in, 0, garbage)

NewAssertionLoose(rows, cols) == (rows <= MARKER) /\ (cols <= MARKER)

(* The assertions of StepTable::new. *)
NewAssertion(rows, cols) == (rows < MARKER) /\ (cols < MARKER)

GuardFromStr(in) ==
    LET index == in.start[1] * in.cols + in.start[2]
    IN  [pos |-> <<index \div in.cols, index % in.rows>>, dir |-> North]

from_column_major_index(idx, nrows, ncols) == <<idx % nrows, idx \div ncols>>

----------------------------------------------------------------------------
(* The walks of Problem. *)

(* StepTable::remaining_steps: "index" when the checked indexing panics,   *)
(* "assert_remaining" when the entry is the marker.                        *)
RemainingStepsFails(t, pos, dir) ==
    IF ~Contained(pos, t.room_size)
    THEN "index"
    ELSE IF t.steps_to_obstruction[dir][pos] = MARKER THEN "assert_remaining" ELSE "no"

remaining_steps(t, pos, dir) == t.steps_to_obstruction[dir][pos]

(* kind is "some", "none" or the panic of remaining_steps. *)
advance_guard_slow(t, size, g) ==
    IF RemainingStepsFails(t, g.pos, g.dir) # "no"
    THEN [kind |-> RemainingStepsFails(t, g.pos, g.dir), guard |-> g]
    ELSE LET moved == IF remaining_steps(t, g.pos, g.dir) = 0
                      THEN [g EXCEPT !.dir = turn(g.dir)]
                      ELSE [g EXCEPT !.pos = CoordAdd(g.pos, DirCoord(g.dir))]
         IN  [kind |-> IF bounded_by(moved.pos, size) THEN "some" ELSE "none",
              guard |-> moved]

advance_guard_fast(t, size, g) ==
    IF RemainingStepsFails(t, g.pos, g.dir) # "no"
    THEN [kind |-> RemainingStepsFails(t, g.pos, g.dir), guard |-> g]
    ELSE LET steps == remaining_steps(t, g.pos, g.dir)
             moved == [pos |-> CoordAdd(g.pos, CoordMul(steps, DirCoord(g.dir))),
                       dir |-> turn(g.dir)]
         IN  [kind |-> IF bounded_by(moved.pos, size) THEN "some" ELSE "none",
              guard |-> moved]

(* The while loop of _brent_cycle_detection: "some", "none" or the panic   *)
(* of an advance.                                                          *)
RECURSIVE BrentLoop(_, _, _, _, _, _)
BrentLoop(t, size, tort, har, pow, lam) ==
    IF tort = har
    THEN "some"
    ELSE LET reset == (pow = lam)
             adv == advance_guard_fast(t, size, har)
         IN  IF adv.kind # "some"
             THEN adv.kind
             ELSE BrentLoop(t, size,
                            IF reset THEN har ELSE tort,
                            adv.guard,
                            IF reset THEN pow * 2 ELSE pow,
                            (IF reset THEN 0 ELSE lam) + 1)

brent_cycle_detection(t, size, start) ==
    LET adv == advance_guard_fast(t, size, start)
    IN  IF adv.kind # "some"
        THEN adv.kind
        ELSE BrentLoop(t, size, start, adv.guard, 1, 1)

(* mask() of a direction is bit d of the visited byte. *)
MaskSet(byte, d) == (byte \div (2 ^ d)) % 2 = 1

----------------------------------------------------------------------------
(* State. *)

VARIABLES
    input,          \* the text: [rows, cols, obs, start]
    pc,             \* position of the program
    failure,        \* why the program panicked ("none": it has not)
    step_table,     \* Problem::step_table (a bare StepTable in SpecTable)
    problem_guard,  \* Problem::guard
    room_size,      \* Problem::room_size
    guard,          \* patrol_slow: guard
    visited,        \* patrol_slow: result.visited, a set of directions per cell
    result_a,       \* value returned by part_a (-1: not yet)
    patrol_coords,  \* part_b: the candidate list
    pending,        \* part_b: indices of patrol_coords no job has taken yet
    worker_table,   \* part_b: the StepTable of each job (map_init's value)
    worker_pos,     \* part_b: per job -1 (not started), 0 (between probes) or the
                    \* index of the candidate it is probing
    worker_last,    \* part_b: per job the index of the last candidate probed on its
                    \* table (0: none yet)
    sum,            \* part_b: booleans added up so far
    result_b,       \* value returned by part_b (-1: not yet)
    actor,          \* the job that took the last step (0: none)
    tortoise,       \* _brent_cycle_detection: tortoise
    hare,           \* _brent_cycle_detection: hare
    power,          \* _brent_cycle_detection: power
    lambda,         \* _brent_cycle_detection: lambda
    walk,           \* _brent_cycle_detection: "idle", "loop", "some", "none", "panic"
    obstructed,     \* SpecTable: cells added and not removed since new
    snapshot,       \* SpecTable: a remembered earlier state of the table
    ops,            \* SpecTable: add/remove calls made so far
    query,          \* SpecTable: the last remaining_steps call, [pos, dir, value]
    ub              \* an unchecked access outside a matrix has happened

problemVars == <<input, step_table, problem_guard, room_size>>
slowVars == <<guard, visited, result_a>>
searchVars == <<patrol_coords, pending, worker_table, worker_pos, worker_last, sum, result_b,
                actor>>
brentVars == <<tortoise, hare, power, lambda>>
tableVars == <<obstructed, snapshot, ops, query>>

vars == <<input, pc, failure, step_table, problem_guard, room_size, guard, visited, result_a,
          patrol_coords, pending, worker_table, worker_pos, worker_last, sum, result_b, actor,
          tortoise, hare, power, lambda, walk, obstructed, snapshot, ops, query, ub>>

Workers == 1 .. NumWorkers

NoGuard == [pos |-> <<0, 0>>, dir |-> North]
NoTable == StepTableNew(0, 0)
NoInput == [rows |-> 0, cols |-> 0, obs |-> {}, start |-> <<0, 0>>]
NoSnapshot == [taken |-> FALSE, table |-> NoTable, obstructed |-> {}]
NoQuery == [pos |-> <<0, 0>>, dir |-> North, value |-> -1]

(* The sets of at most n obstructed cells of a room. *)
RECURSIVE ObsSets(_, _)
ObsSets(cells, n) ==
    IF n = 0
    THEN {{}}
    ELSE LET fewer == ObsSets(cells, n - 1)
         IN  fewer \cup {o \cup {c} : o \in fewer, c \in cells}

(* The rectangular grids of one size, with one start symbol on a free cell. *)
RoomsOfSize(size) ==
    { [rows |-> size[1], cols |-> size[2], obs |-> os[1], start |-> os[2]] :
        os \in { p \in ObsSets(Cells(size), MaxObs) \X Cells(size) : p[2] \notin p[1] } }

(* The grids the model feeds the parser. *)
Rooms == UNION { RoomsOfSize(size) : size \in (1 .. MaxDim) \X (1 .. MaxDim) }

(* Larger rooms: one whose two candidates share the bottom row, one whose  *)
(* four obstructions close the guard's path into a rectangle, one that is  *)
(* not square, and one whose guard leaves across the top edge.             *)
Scenarios ==
    { [rows |-> 4, cols |-> 4, obs |-> {<<0, 3>>, <<2, 1>>, <<3, 0>>}, start |-> <<3, 1>>],
      [rows |-> 4, cols |-> 4, obs |-> {<<0, 1>>, <<1, 3>>, <<3, 2>>, <<2, 0>>},
       start |-> <<1, 1>>],
      [rows |-> 3, cols |-> 2, obs |-> {<<1, 1>>}, start |-> <<2, 0>>],
      [rows |-> 3, cols |-> 3, obs |-> {<<1, 2>>, <<2, 1>>}, start |-> <<2, 0>>],
      [rows |-> 4, cols |-> 4, obs |-> {<<0, 1>>, <<1, 3>>, <<2, 0>>}, start |-> <<2, 1>>] }

Inputs == Rooms \cup Scenarios

InitRest ==
    /\ failure = "none"
    /\ problem_guard = NoGuard
    /\ guard = NoGuard
    /\ visited = <<>>
    /\ result_a = -1
    /\ patrol_coords = <<>>
    /\ pending = {}
    /\ worker_table = [w \in Workers |-> NoTable]
    /\ worker_pos = [w \in Workers |-> -1]
    /\ worker_last = [w \in Workers |-> 0]
    /\ sum = 0
    /\ result_b = -1
    /\ actor = 0
    /\ tortoise = NoGuard
    /\ hare = NoGuard
    /\ power = 0
    /\ lambda = 0
    /\ walk = "idle"
    /\ query = NoQuery
    /\ ub = FALSE

(* A panic: an assertion ("assert_..."), a checked index out of bounds     *)
(* ("index"), a u8 overflow ("overflow"), or a fault at an unchecked access *)
(* outside a matrix ("unchecked").                                          *)
Halt(cause) ==
    /\ pc' = "panicked"
    /\ failure' = cause
    /\ UNCHANGED <<problemVars, slowVars, searchVars, brentVars, tableVars>>

----------------------------------------------------------------------------
(* SpecTable: a StepTable under add_obstruction and remove_obstruction. *)

InitTable ==
    /\ \E rows \in 1 .. MaxDim, cols \in 1 .. MaxDim :
         /\ step_table = StepTableNew(rows, cols)
         /\ room_size = <<rows, cols>>
    /\ input = NoInput
    /\ pc = "table"
    /\ obstructed = {}
    /\ snapshot = NoSnapshot
    /\ ops = 0
    /\ InitRest

(* add_obstruction(pos) on a free cell. *)
AddObstruction(pos) ==
    /\ pc = "table"
    /\ pos \notin obstructed
    /\ Cardinality(obstructed) < MaxObs
    /\ ops < MaxOps
    /\ \E garbage \in GarbageBytes :
         \/ /\ step_table' = add_obstruction(step_table, pos, garbage)
            /\ obstructed' = obstructed \cup {pos}
            /\ ops' = ops + 1
            /\ ub' = (ub \/ AddOutOfBounds(step_table, pos, garbage))
            /\ UNCHANGED <<pc, failure, input, problem_guard, room_size, slowVars, searchVars,
                           brentVars, walk, snapshot, query>>
         \/ /\ AddOutOfBounds(step_table, pos, garbage) = TRUE
            /\ ub' = TRUE
            /\ UNCHANGED walk
            /\ Halt("unchecked")

(* remove_obstruction(pos) on any cell of the grid; on a cell that does not *)
(* hold the marker in all four matrices its assertion fails.               *)
RemoveObstruction(pos) ==
    /\ pc = "table"
    /\ ops < MaxOps
    /\ \/ /\ RemoveAssertion(step_table, pos) = FALSE
          /\ UNCHANGED walk
          /\ \/ /\ ub' = (ub \/ RemoveOutOfBoundsBeforeAssert(step_table, pos))
                /\ Halt("assert_remove")
             \/ /\ RemoveOutOfBoundsBeforeAssert(step_table, pos) = TRUE
                /\ ub' = TRUE
                /\ Halt("unchecked")
       \/ /\ RemoveAssertion(step_table, pos) = TRUE
          /\ \E garbage \in GarbageBytes :
               \/ /\ step_table' = remove_obstruction(step_table, pos, garbage)
                  /\ obstructed' = obstructed \ {pos}
                  /\ ops' = ops + 1
                  /\ ub' = (ub \/ RemoveOutOfBounds(step_table, pos))
                  /\ UNCHANGED <<pc, failure, input, problem_guard, room_size, slowVars,
                                 searchVars, brentVars, walk, snapshot, query>>
               \/ /\ RemoveOutOfBounds(step_table, pos) = TRUE
                  /\ ub' = TRUE
                  /\ UNCHANGED walk
                  /\ Halt("unchecked")
               \/ /\ RemoveOverflows(step_table, pos, garbage) = TRUE
                  /\ ub' = (ub \/ RemoveOutOfBounds(step_table, pos))
                  /\ UNCHANGED walk
                  /\ Halt("overflow")

(* Remember the table as it is now, once. *)
TakeSnapshot ==
    /\ pc = "table"
    /\ ~snapshot.taken
    /\ snapshot' = [taken |-> TRUE, table |-> step_table, obstructed |-> obstructed]
    /\ UNCHANGED <<pc, failure, problemVars, slowVars, searchVars, brentVars, walk,
                   obstructed, ops, query, ub>>

(* remaining_steps(pos, dir) on a cell of the grid: the entry is read, the *)
(* assertion compares it with the marker, the entry is returned.          *)
RemainingSteps(pos, dir) ==
    /\ pc = "table"
    /\ query' = [pos |-> pos, dir |-> dir, value |-> remaining_steps(step_table, pos, dir)]
    /\ IF RemainingStepsFails(step_table, pos, dir) = "no"
       THEN UNCHANGED <<pc, failure>>
       ELSE /\ pc' = "panicked"
            /\ failure' = RemainingStepsFails(step_table, pos, dir)
    /\ UNCHANGED <<problemVars, slowVars, searchVars, brentVars, walk, obstructed, snapshot,
                   ops, ub>>

NextTable ==
    \/ \E pos \in Cells(room_size) : AddObstruction(pos)
    \/ \E pos \in Cells(room_size) : RemoveObstruction(pos)
    \/ \E pos \in Cells(room_size), dir \in Dirs : RemainingSteps(pos, dir)
    \/ TakeSnapshot

SpecTable == InitTable /\ [][NextTable]_vars

----------------------------------------------------------------------------
(* Spec: part_a and part_b on one text.  Both parse the text and run        *)
(* patrol_slow; part_a returns the count, part_b goes on to the search.     *)

Init ==
    /\ input \in Inputs
    /\ pc = "parse"
    /\ step_table = NoTable
    /\ room_size = <<0, 0>>
    /\ obstructed = {}
    /\ snapshot = NoSnapshot
    /\ ops = 0
    /\ InitRest

(* <Problem as FromStr>::from_str, and the first lines of patrol_slow. *)
Parse ==
    /\ pc = "parse"
    /\ \/ /\ NewAssertion(input.rows, input.cols) = FALSE
          /\ UNCHANGED <<ub, walk>>
          /\ Halt("assert_new")
       \/ /\ NewAssertion(input.rows, input.cols) = TRUE
          /\ \E garbage \in GarbageBytes :
               LET parsed == StepTableFromStr(input, garbage)
               IN  \/ /\ step_table' = parsed.table
                      /\ problem_guard' = GuardFromStr(input)
                      /\ room_size' = <<input.rows, input.cols>>
                      /\ guard' = GuardFromStr(input)
                      /\ visited' = [c \in Cells(<<input.rows, input.cols>>) |-> {}]
                      /\ ub' = parsed.oob
                      /\ pc' = "patrol_slow"
                      /\ UNCHANGED <<failure, input, result_a, searchVars, brentVars, walk,
                                     tableVars>>
                   \/ /\ parsed.oob = TRUE
                      /\ ub' = TRUE
                      /\ UNCHANGED walk
                      /\ Halt("unchecked")

(* One iteration of the loop of patrol_slow. *)
SlowStep ==
    /\ pc = "patrol_slow"
    /\ LET adv == advance_guard_slow(step_table, room_size, guard)
           g == adv.guard
           inside == Contained(g.pos, room_size)
           l == LinearIndex(g.pos, room_size)
           cell == CellOfLinear(l, room_size)
       IN  \/ /\ adv.kind \notin {"some", "none"}
              /\ UNCHANGED <<ub, walk>>
              /\ Halt(adv.kind)
           \/ /\ adv.kind = "none"
              /\ pc' = "patrolled"
              /\ UNCHANGED <<failure, problemVars, slowVars, searchVars, brentVars, walk,
                             tableVars, ub>>
           \/ /\ adv.kind = "some"
              /\ InBuffer(l, room_size)
              /\ guard' = g
              /\ ub' = (ub \/ ~inside)
              /\ IF g.dir \in visited[cell]
                 THEN pc' = "patrolled" /\ UNCHANGED visited
                 ELSE pc' = pc /\ visited' = [visited EXCEPT ![cell] = @ \cup {g.dir}]
              /\ UNCHANGED <<failure, problemVars, result_a, searchVars, brentVars, walk,
                             tableVars>>
           \/ /\ adv.kind = "some"
              /\ ~InBuffer(l, room_size)
              /\ guard' = g
              /\ ub' = TRUE
              /\ \E garbage \in GarbageBytes :
                   pc' = IF MaskSet(garbage, g.dir) THEN "patrolled" ELSE pc
              /\ UNCHANGED <<failure, problemVars, visited, result_a, searchVars, brentVars,
                             walk, tableVars>>
           \/ /\ adv.kind = "some"
              /\ ~inside
              /\ ub' = TRUE
              /\ UNCHANGED walk
              /\ Halt("unchecked")

(* part_a: count the cells with a non-zero mask. *)
PartAReturn ==
    /\ pc = "patrolled"
    /\ result_a' = Cardinality({c \in Cells(room_size) : visited[c] # {}})
    /\ pc' = "collect"
    /\ UNCHANGED <<failure, problemVars, guard, visited, searchVars, brentVars, walk,
                   tableVars, ub>>

(* part_b: patrol_coords, from the column-major slice of visited. *)
RECURSIVE PatrolCoords(_, _, _, _)
PatrolCoords(vis, size, start, idx) ==
    IF idx >= size[1] * size[2]
    THEN <<>>
    ELSE LET pos == from_column_major_index(idx, size[1], size[2])
             rest == PatrolCoords(vis, size, start, idx + 1)
         IN  IF vis[CellOfLinear(idx, size)] = {} \/ pos = start
             THEN rest
             ELSE <<pos>> \o rest

Collect ==
    /\ pc = "collect"
    /\ patrol_coords' = PatrolCoords(visited, room_size, problem_guard.pos, 0)
    /\ pending' = 1 .. Len(PatrolCoords(visited, room_size, problem_guard.pos, 0))
    /\ pc' = "search"
    /\ UNCHANGED <<failure, problemVars, slowVars, worker_table, worker_pos, worker_last, sum,
                   result_b, actor, brentVars, walk, tableVars, ub>>

(* map_init: the table a job works on is the clone its own init made.  A   *)
(* job is one sequential run of the closure over consecutive candidates;   *)
(* a thread that takes up another run starts it with a new clone.          *)
(* The faulty variant: every job is handed the same table. *)
CloneForShared(w) == 1

CloneFor(w) == w

(* map_init's init closure: problem.step_table.clone(). *)
WorkerInit(w) ==
    /\ pc = "search"
    /\ \/ worker_pos[w] = -1
       \/ worker_pos[w] = 0 /\ worker_last[w] # 0
    /\ pending # {}
    /\ worker_table' = [worker_table EXCEPT ![CloneFor(w)] = step_table]
    /\ worker_pos' = [worker_pos EXCEPT ![w] = 0]
    /\ worker_last' = [worker_last EXCEPT ![w] = 0]
    /\ actor' = w
    /\ UNCHANGED <<pc, failure, problemVars, slowVars, patrol_coords, pending, sum, result_b,
                   brentVars, walk, tableVars, ub>>

(* The closure of map_init up to add_obstruction, on candidate i. *)
WorkerAdd(w, i) ==
    /\ pc = "search"
    /\ worker_pos[w] = 0
    /\ i \in pending
    /\ worker_last[w] = 0 \/ i = worker_last[w] + 1
    /\ LET pos == patrol_coords[i]
           t == worker_table[CloneFor(w)]
       IN  \/ /\ ~Contained(pos, t.room_size)
              /\ UNCHANGED <<ub, walk>>
              /\ Halt("index")
           \/ /\ Contained(pos, t.room_size)
              /\ is_obstructed(t, pos)
              /\ UNCHANGED <<ub, walk>>
              /\ Halt("assert_candidate")
           \/ /\ Contained(pos, t.room_size)
              /\ ~is_obstructed(t, pos)
              /\ \E garbage \in GarbageBytes :
                   \/ /\ worker_table' = [worker_table EXCEPT
                                            ![CloneFor(w)] = add_obstruction(t, pos, garbage)]
                      /\ worker_pos' = [worker_pos EXCEPT ![w] = i]
                      /\ worker_last' = [worker_last EXCEPT ![w] = i]
                      /\ pending' = pending \ {i}
                      /\ actor' = w
                      /\ ub' = (ub \/ AddOutOfBounds(t, pos, garbage))
                      /\ UNCHANGED <<pc, failure, problemVars, slowVars, patrol_coords, sum,
                                     result_b, brentVars, walk, tableVars>>
                   \/ /\ AddOutOfBounds(t, pos, garbage) = TRUE
                      /\ ub' = TRUE
                      /\ UNCHANGED walk
                      /\ Halt("unchecked")

(* remove_obstruction(pos) and the boolean of the closure, for a walk that *)
(* returned is_loop.                                                       *)
RemoveAndCount(w, is_loop) ==
    LET pos == patrol_coords[worker_pos[w]]
        t == worker_table[CloneFor(w)]
    IN  \/ /\ RemoveAssertion(t, pos) = FALSE
           /\ \/ /\ ub' = (ub \/ RemoveOutOfBoundsBeforeAssert(t, pos))
                 /\ Halt("assert_remove")
              \/ /\ RemoveOutOfBoundsBeforeAssert(t, pos) = TRUE
                 /\ ub' = TRUE
                 /\ Halt("unchecked")
        \/ /\ RemoveAssertion(t, pos) = TRUE
           /\ \E garbage \in GarbageBytes :
                \/ /\ worker_table' = [worker_table EXCEPT
                                         ![CloneFor(w)] = remove_obstruction(t, pos, garbage)]
                   /\ worker_pos' = [worker_pos EXCEPT ![w] = 0]
                   /\ UNCHANGED worker_last
                   /\ sum' = sum + (IF is_loop THEN 1 ELSE 0)
                   /\ actor' = w
                   /\ ub' = (ub \/ RemoveOutOfBounds(t, pos))
                   /\ UNCHANGED <<pc, failure, problemVars, slowVars, patrol_coords, pending,
                                  result_b, brentVars, tableVars>>
                \/ /\ RemoveOutOfBounds(t, pos) = TRUE
                   /\ ub' = TRUE
                   /\ Halt("unchecked")
                \/ /\ RemoveOverflows(t, pos, garbage) = TRUE
                   /\ ub' = (ub \/ RemoveOutOfBounds(t, pos))
                   /\ Halt("overflow")

(* The rest of the closure: patrol_fast, remove_obstruction, the boolean. *)
WorkerFinish(w) ==
    /\ pc = "search"
    /\ worker_pos[w] > 0
    /\ UNCHANGED walk
    /\ LET found == brent_cycle_detection(worker_table[CloneFor(w)], room_size, problem_guard)
       IN  \/ /\ found \notin {"some", "none"}
              /\ UNCHANGED ub
              /\ Halt(found)
           \/ /\ found \in {"some", "none"}
              /\ RemoveAndCount(w, found = "some")

(* part_b: the sum, once every candidate has been probed. *)
PartBReturn ==
    /\ pc = "search"
    /\ pending = {}
    /\ \A w \in Workers : worker_pos[w] <= 0
    /\ result_b' = sum
    /\ pc' = "done"
    /\ UNCHANGED <<failure, problemVars, slowVars, patrol_coords, pending, worker_table,
                   worker_pos, worker_last, sum, actor, brentVars, walk, tableVars, ub>>

Next ==
    \/ Parse
    \/ SlowStep
    \/ PartAReturn
    \/ Collect
    \/ \E w \in Workers : WorkerInit(w)
    \/ \E w \in Workers : \E i \in 1 .. Len(patrol_coords) : WorkerAdd(w, i)
    \/ \E w \in Workers : WorkerFinish(w)
    \/ PartBReturn

Spec == Init /\ [][Next]_vars

----------------------------------------------------------------------------
(* SpecProbe: the same program with one job, whose patrol_fast is taken    *)
(* one advance of _brent_cycle_detection at a time.                        *)

(* A start of the detection with a power that is no power of two. *)
BrentStartOdd ==
    /\ pc = "search"
    /\ worker_pos[1] > 0
    /\ walk = "idle"
    /\ LET adv == advance_guard_fast(worker_table[CloneFor(1)], room_size, problem_guard)
       IN  /\ adv.kind \in {"some", "none"}
           /\ power' = 3
           /\ lambda' = 1
           /\ tortoise' = problem_guard
           /\ hare' = IF adv.kind = "some" THEN adv.guard ELSE hare
           /\ walk' = IF adv.kind = "some" THEN "loop" ELSE "none"
           /\ UNCHANGED <<pc, failure, problemVars, slowVars, searchVars, tableVars, ub>>

(* let mut power, lambda, tortoise; the first advance of the hare. *)
BrentStart ==
    /\ pc = "search"
    /\ worker_pos[1] > 0
    /\ walk = "idle"
    /\ LET adv == advance_guard_fast(worker_table[CloneFor(1)], room_size, problem_guard)
       IN  \/ /\ adv.kind \notin {"some", "none"}
              /\ walk' = "panic"
              /\ UNCHANGED ub
              /\ Halt(adv.kind)
           \/ /\ adv.kind \in {"some", "none"}
              /\ power' = 1
              /\ lambda' = 1
              /\ tortoise' = problem_guard
              /\ hare' = IF adv.kind = "some" THEN adv.guard ELSE hare
              /\ walk' = IF adv.kind = "some" THEN "loop" ELSE "none"
              /\ UNCHANGED <<pc, failure, problemVars, slowVars, searchVars, tableVars, ub>>

(* The test of the while loop and one run of its body. *)
BrentIter ==
    /\ pc = "search"
    /\ walk = "loop"
    /\ IF tortoise = hare
       THEN /\ walk' = "some"
            /\ UNCHANGED <<pc, failure, problemVars, slowVars, searchVars, brentVars,
                           tableVars, ub>>
       ELSE LET reset == (power = lambda)
                adv == advance_guard_fast(worker_table[CloneFor(1)], room_size, hare)
            IN  \/ /\ adv.kind \notin {"some", "none"}
                   /\ walk' = "panic"
                   /\ UNCHANGED ub
                   /\ Halt(adv.kind)
                \/ /\ adv.kind \in {"some", "none"}
                   /\ tortoise' = IF reset THEN hare ELSE tortoise
                   /\ power' = IF reset THEN power * 2 ELSE power
                   /\ hare' = IF adv.kind = "some" THEN adv.guard ELSE hare
                   /\ lambda' = IF adv.kind = "some"
                                THEN (IF reset THEN 0 ELSE lambda) + 1
                                ELSE (IF reset THEN 0 ELSE lambda)
                   /\ walk' = IF adv.kind = "some" THEN "loop" ELSE "none"
                   /\ UNCHANGED <<pc, failure, problemVars, slowVars, searchVars, tableVars, ub>>

(* patrol_fast has returned: remove_obstruction and the boolean. *)
BrentFinish ==
    /\ pc = "search"
    /\ walk \in {"some", "none"}
    /\ RemoveAndCount(1, walk = "some")
    /\ walk' = IF pc' = "panicked" THEN walk ELSE "idle"

NextProbe ==
    \/ Parse
    \/ SlowStep
    \/ PartAReturn
    \/ Collect
    \/ WorkerInit(1)
    \/ \E i \in 1 .. Len(patrol_coords) : WorkerAdd(1, i)
    \/ BrentStart
    \/ BrentIter
    \/ BrentFinish
    \/ PartBReturn

SpecProbe == Init /\ [][NextProbe]_vars

----------------------------------------------------------------------------
(* Reference: the room as plain geometry, without a jump table. *)

(* Single-cell moves from c in direction d until the next cell is an       *)
(* obstruction, or until the walker stands outside the room.               *)
RECURSIVE NaiveSteps(_, _, _, _)
NaiveSteps(c, d, obs, size) ==
    LET next == CoordAdd(c, DirCoord(d))
    IN  IF next \in obs
        THEN 0
        ELSE IF next \notin Cells(size)
             THEN 1
             ELSE 1 + NaiveSteps(next, d, obs, size)

(* The guard's walk cell by cell.  cells: the cells the guard occupies;    *)
(* loops: the walk never leaves the room.                                  *)
RECURSIVE RefWalk(_, _, _, _, _)
RefWalk(pos, dir, seen, obs, size) ==
    IF <<pos, dir>> \in seen
    THEN [cells |-> {s[1] : s \in seen}, loops |-> TRUE]
    ELSE LET next == CoordAdd(pos, DirCoord(dir))
         IN  IF next \notin Cells(size)
             THEN [cells |-> {s[1] : s \in seen} \cup {pos}, loops |-> FALSE]
             ELSE IF next \in obs
                  THEN RefWalk(pos, turn(dir), seen \cup {<<pos, dir>>}, obs, size)
                  ELSE RefWalk(next, dir, seen \cup {<<pos, dir>>}, obs, size)

(* A faulty variant: only the start cell counts as visited. *)
RefVisitedShort(in) == {in.start}

RefVisited(in) == RefWalk(in.start, North, {}, in.obs, <<in.rows, in.cols>>).cells

RefLoops(in, extra) ==
    RefWalk(in.start, North, {}, in.obs \cup extra, <<in.rows, in.cols>>).loops

RefPartB(in) == Cardinality({c \in RefVisited(in) \ {in.start} : RefLoops(in, {c})})

(* The shared transition rule applied cell by cell on a table (zero steps  *)
(* remain: turn; otherwise move one cell): the guard never leaves the room. *)
RECURSIVE TableLoops(_, _, _, _)
TableLoops(t, size, g, seen) ==
    IF g.pos \notin Cells(size)
    THEN FALSE
    ELSE IF g \in seen
         THEN TRUE
         ELSE IF t.steps_to_obstruction[g.dir][g.pos] = 0
              THEN TableLoops(t, size, [g EXCEPT !.dir = turn(g.dir)], seen \cup {g})
              ELSE TableLoops(t, size, [g EXCEPT !.pos = CoordAdd(g.pos, DirCoord(g.dir))],
                              seen \cup {g})

(* The boolean of candidate i when it is probed on an untouched clone. *)
FreshVerdict(i) ==
    brent_cycle_detection(add_obstruction(step_table, patrol_coords[i], 0),
                          room_size, problem_guard) = "some"

----------------------------------------------------------------------------
(* Claims. *)

(* C1: part_a does not panic on a valid grid, and the number it returns is *)
(* the number of distinct cells the guard occupies, start cell included,   *)
(* in the naive cell-by-cell simulation.                                   *)
C1_PartAEqualsNaiveSimulation ==
    /\ ~(pc = "panicked" /\ failure # "unchecked" /\ result_a = -1)
    /\ result_a # -1 => result_a = Cardinality(RefVisited(input))

(* C2: the search of part_b does not panic on a valid grid, and the number *)
(* part_b returns is the number of cells, among those the baseline walk    *)
(* visits other than the start cell, whose obstruction makes the guard     *)
(* loop.                                                                   *)
C2_PartBEqualsNaiveLoopCount ==
    /\ ~(pc = "panicked" /\ failure # "unchecked" /\ result_a # -1)
    /\ result_b # -1 => result_b = RefPartB(input)

(* C3: in every state reached from StepTable::new by add_obstruction on    *)
(* free cells and remove_obstruction on obstructed cells, every free cell  *)
(* c and direction d have remaining_steps(c, d) equal to the count of a    *)
(* naive cell-by-cell walk from c in direction d.                          *)
C3_RemainingStepsMatchNaiveWalk ==
    pc = "table" =>
        \A c \in Cells(room_size) \ obstructed : \A d \in Dirs :
            remaining_steps(step_table, c, d) = NaiveSteps(c, d, obstructed, room_size)

(* C4: whenever a sequence of add/remove calls has brought the set of      *)
(* obstructed cells back to what it was, the four matrices are entry for   *)
(* entry what they were.                                                   *)
C4_NetZeroSequenceRestoresMatrices ==
    (pc = "table" /\ snapshot.taken /\ obstructed = snapshot.obstructed) =>
        step_table.steps_to_obstruction = snapshot.table.steps_to_obstruction

(* C5: patrol_fast returns (it does not panic); it returns true exactly    *)
(* when the guard following the transition rule on that table never leaves *)
(* the room, and false exactly when it leaves.                             *)
C5_PatrolFastIffNeverLeaves ==
    /\ walk # "panic"
    /\ walk = "some" => TableLoops(worker_table[1], room_size, problem_guard, {})
    /\ walk = "none" => ~TableLoops(worker_table[1], room_size, problem_guard, {})

(* C6: the number part_b returns is the sum of the booleans of its         *)
(* candidates, each as an untouched clone gives it: it does not depend on  *)
(* which job probes which candidate, or in what order.                     *)
C6_SumIndependentOfSchedule ==
    result_b # -1 =>
        result_b = Cardinality({i \in 1 .. Len(patrol_coords) : FreshVerdict(i)})

(* C7: a probe's _brent_cycle_detection returns: it never panics, and      *)
(* while its loop runs the hare is on one of the 4 * rows * cols states of *)
(* the room, power staying within twice that number.                       *)
C7_ProbeReturns ==
    /\ walk # "panic"
    /\ walk = "loop" =>
         /\ Contained(hare.pos, room_size)
         /\ power <= 2 * (4 * room_size[1] * room_size[2])

(* C8: patrol_slow does not panic, and it stops at the first step whose    *)
(* resulting position is outside the room.                                 *)
C8_SlowWalkStops ==
    [][pc = "patrol_slow" =>
         /\ pc' = "panicked" => failure' = "unchecked"
         /\ ~Contained(guard'.pos, room_size) => pc' = "patrolled"]_vars

C10_NoAssertionFails ==
    failure \notin {"assert_remaining", "assert_candidate", "assert_remove"}

----------------------------------------------------------------------------
(* SpecNew: StepTable::new(rows, cols) on sizes around the first grids and *)
(* around the marker value.                                                *)

NewSizes == (1 .. MaxDim + 3) \cup (MARKER - 1 .. MARKER + 1)

InitNew ==
    /\ \E rows \in NewSizes, cols \in NewSizes :
         input = [rows |-> rows, cols |-> cols, obs |-> {}, start |-> <<0, 0>>]
    /\ pc = "new"
    /\ step_table = NoTable
    /\ room_size = <<0, 0>>
    /\ obstructed = {}
    /\ snapshot = NoSnapshot
    /\ ops = 0
    /\ InitRest

(* StepTable::new(input.rows, input.cols). *)
NewTable ==
    /\ pc = "new"
    /\ \/ /\ NewAssertion(input.rows, input.cols) = FALSE
          /\ UNCHANGED <<ub, walk>>
          /\ Halt("assert_new")
       \/ /\ NewAssertion(input.rows, input.cols) = TRUE
          /\ step_table' = StepTableNew(input.rows, input.cols)
          /\ room_size' = <<input.rows, input.cols>>
          /\ pc' = "table"
          /\ UNCHANGED <<failure, input, problem_guard, slowVars, searchVars, brentVars, walk,
                         tableVars, ub>>

NextNew == NewTable

SpecNew == InitNew /\ [][NextNew]_vars

----------------------------------------------------------------------------
(* SpecText: <Problem as FromStr>::from_str on a text whose lines may have *)
(* different lengths.  The text is [rows, cols, obs, start, widths]: rows  *)
(* lines, line r of widths[r + 1] bytes, cols the length of the first      *)
(* line, obs the positions of '#' and start the position of '^'.           *)

TextCells(widths) ==
    {p \in (0 .. Len(widths) - 1) \X (0 .. MaxDim - 1) : p[2] < widths[p[1] + 1]}

Texts ==
    UNION { { [rows |-> Len(widths), cols |-> widths[1], obs |-> obs, start |-> start,
               widths |-> widths] :
                obs \in ObsSets(TextCells(widths), MaxObs),
                start \in TextCells(widths) } :
            widths \in UNION {[1 .. n -> 1 .. MaxDim] : n \in 1 .. MaxDim} }

(* s.lines().enumerate() with line.as_bytes().iter().enumerate(): one      *)
(* add_obstruction per '#'; the last statement of add_obstruction indexes  *)
(* the matrices with the position itself, which panics outside the grid.   *)
RECURSIVE TextLoop(_, _, _, _, _, _)
TextLoop(t, oob, in, row, col, garbage) ==
    IF row >= in.rows
    THEN [table |-> t, oob |-> oob, failed |-> FALSE]
    ELSE IF col >= in.widths[row + 1]
         THEN TextLoop(t, oob, in, row + 1, 0, garbage)
         ELSE IF <<row, col>> \notin in.obs
              THEN TextLoop(t, oob, in, row, col + 1, garbage)
              ELSE IF ~Contained(<<row, col>>, t.room_size)
                   THEN [table |-> t, oob |-> oob \/ AddOutOfBounds(t, <<row, col>>, garbage),
                         failed |-> TRUE]
                   ELSE TextLoop(add_obstruction(t, <<row, col>>, garbage),
                                 oob \/ AddOutOfBounds(t, <<row, col>>, garbage),
                                 in, row, col + 1, garbage)

StepTableFromText(in, garbage) ==
    TextLoop(StepTableNew(in.rows, in.cols), FALSE, in, 0, 0, garbage)

(* Index of '^' in the bytes of all lines put one after the other. *)
RECURSIVE FlatIndex(_, _, _)
FlatIndex(widths, row, col) ==
    IF row = 0 THEN col ELSE widths[row] + FlatIndex(widths, row - 1, col)

GuardFromText(in) ==
    LET index == FlatIndex(in.widths, in.start[1], in.start[2])
    IN  [pos |-> <<index \div in.cols, index % in.rows>>, dir |-> North]

Rectangular(in) == \A r \in 1 .. in.rows : in.widths[r] = in.cols

InitText ==
    /\ input \in {in \in Texts : in.start \notin in.obs}
    /\ pc = "text"
    /\ step_table = NoTable
    /\ room_size = <<0, 0>>
    /\ obstructed = {}
    /\ snapshot = NoSnapshot
    /\ ops = 0
    /\ InitRest

(* <Problem as FromStr>::from_str. *)
ParseText ==
    /\ pc = "text"
    /\ \/ /\ NewAssertion(input.rows, input.cols) = FALSE
          /\ UNCHANGED <<ub, walk>>
          /\ Halt("assert_new")
       \/ /\ NewAssertion(input.rows, input.cols) = TRUE
          /\ \E garbage \in GarbageBytes :
               LET parsed == StepTableFromText(input, garbage)
               IN  \/ /\ parsed.failed = FALSE
                      /\ step_table' = parsed.table
                      /\ problem_guard' = GuardFromText(input)
                      /\ room_size' = <<input.rows, input.cols>>
                      /\ ub' = parsed.oob
                      /\ pc' = "parsed"
                      /\ UNCHANGED <<failure, input, slowVars, searchVars, brentVars, walk,
                                     tableVars>>
                   \/ /\ parsed.failed = TRUE
                      /\ ub' = parsed.oob
                      /\ UNCHANGED walk
                      /\ Halt("index")
                   \/ /\ parsed.oob = TRUE
                      /\ ub' = TRUE
                      /\ UNCHANGED walk
                      /\ Halt("unchecked")

NextText == ParseText

SpecText == InitText /\ [][NextText]_vars

(* C15: StepTable::new fails an assertion whenever rows or cols is 255 or  *)
(* more, and for 1 <= rows, cols <= 254 it returns a table of that size    *)
(* whose entries are all step counts below the marker.                     *)
C15_NewAssertsSizeBelowMarker ==
    pc # "new" =>
        IF input.rows >= MARKER \/ input.cols >= MARKER
        THEN pc = "panicked" /\ failure = "assert_new"
        ELSE /\ pc = "table"
             /\ step_table.room_size = <<input.rows, input.cols>>
             /\ \A d \in Dirs :
                  /\ DOMAIN step_table.steps_to_obstruction[d] = Cells(<<input.rows, input.cols>>)
                  /\ \A p \in Cells(<<input.rows, input.cols>>) :
                       step_table.steps_to_obstruction[d][p] \in 1 .. MARKER - 1

C15_Witness ==
    /\ pc = "table"
    /\ input.rows = MARKER - 1 /\ input.cols = MARKER - 1
    /\ step_table.room_size = <<MARKER - 1, MARKER - 1>>


(* C11: in the fast walk the out-of-grid check comes before the comparison *)
(* of tortoise and hare: an advance of the hare whose resulting position   *)
(* is outside the grid ends the walk as "escapes", and a loop is never     *)
(* reported with the hare outside the grid.                                *)
C11_ExitCheckedBeforeEquality ==
    [][(pc = "search" /\ walk = "loop") =>
         IF tortoise = hare
         THEN Contained(hare.pos, room_size)
         ELSE LET adv == advance_guard_fast(worker_table[1], room_size, hare)
              IN  (adv.kind \in {"some", "none"} /\ ~Contained(adv.guard.pos, room_size))
                      => walk' = "none"]_vars

(* C12: on a grid without obstructions whose guard is on row 0, part_a and *)
(* part_b do not panic, part_a returns 1 and part_b returns 0.             *)
C12_EmptyGridGuardOnTopRow ==
    (input.rows > 0 /\ input.obs = {} /\ input.start[1] = 0) =>
        /\ ~(pc = "panicked" /\ failure # "unchecked")
        /\ result_a # -1 => result_a = 1
        /\ result_b # -1 => result_b = 0

(* C13: remaining_steps called with a position marked obstructed fails its *)
(* assertion (the program panics); called with a free position inside the *)
(* grid it returns the stored entry of the direction's matrix and changes  *)
(* nothing in the table.                                                   *)
C13_RemainingStepsContract ==
    [][query' # query =>
         IF query'.pos \in obstructed
         THEN pc' = "panicked" /\ failure' = "assert_remaining"
         ELSE /\ pc' = "table"
              /\ query'.value = step_table.steps_to_obstruction[query'.dir][query'.pos]
              /\ step_table' = step_table]_vars

C16_RaggedTextIsRejected ==
    pc = "parsed" => Rectangular(input)

(* C17: in the slow and in the fast walk a move across any of the four     *)
(* edges is detected as leaving the grid: a walk whose guard is inside the *)
(* grid never goes on with a guard position outside it, so that visited    *)
(* and the StepTable are never indexed with such a position.               *)
C17_EdgesDetectedAsExit ==
    [][/\ (pc = "patrol_slow" /\ Contained(guard.pos, room_size))
            => Contained(guard'.pos, room_size)
       /\ (pc = "search" /\ walk = "loop" /\ Contained(hare.pos, room_size))
            => Contained(hare'.pos, room_size)]_vars

(* C18: add_obstruction never reads or writes a matrix entry outside the   *)
(* grid, also when the new obstruction lies on an edge of the grid.        *)
C18_AddStaysInsideGrid ==
    [][\A pos \in Cells(room_size) :
         AddObstruction(pos) =>
             \A garbage \in GarbageBytes : ~AddOutOfBounds(step_table, pos, garbage)]_vars

(* C19: remove_obstruction never reads or writes a matrix entry outside    *)
(* the grid: the cell in front of the removed obstruction is read only     *)
(* when it is inside the grid, otherwise the distance starts from 1.       *)
C19_RemoveStaysInsideGrid ==
    [][\A pos \in Cells(room_size) :
         (RemoveObstruction(pos) /\ RemoveAssertion(step_table, pos))
             => ~RemoveOutOfBounds(step_table, pos)]_vars

(* C20: before and after every probe the private StepTable of a job is     *)
(* entry for entry the Problem's original table, so that the boolean of a  *)
(* probe does not depend on the candidates the job probed before.          *)
C20_WorkerTableRestored ==
    \A w \in Workers :
        (pc = "search" /\ worker_pos[w] = 0) => worker_table[w] = step_table


(* C21: the candidate list of part_b holds each cell that the baseline     *)
(* walk marked as visited, other than the guard's start cell, exactly once *)
(* and holds no other cell, on square and non-square grids.                *)
C21_CandidatesAreVisitedCells ==
    pc \in {"search", "done"} =>
        /\ {patrol_coords[i] : i \in 1 .. Len(patrol_coords)}
             = {c \in Cells(room_size) : visited[c] # {}} \ {problem_guard.pos}
        /\ \A i, j \in 1 .. Len(patrol_coords) :
             patrol_coords[i] = patrol_coords[j] => i = j

(* C22: on every rectangular grid with exactly one start symbol the parsed *)
(* Guard stands on the (row, col) of that symbol and faces North.          *)
C22_GuardParsedAtStartSymbol ==
    pc \notin {"parse", "panicked"} =>
        problem_guard = [pos |-> input.start, dir |-> North]

(* C23: in every state of a StepTable reached by add_obstruction and       *)
(* remove_obstruction, a cell holds the marker in one direction's matrix   *)
(* if and only if it holds it in all four, so that is_obstructed, which    *)
(* looks at matrix 0, agrees with every other matrix.                      *)
C23_MarkerInAllFourOrNone ==
    pc = "table" =>
        \A c \in Cells(room_size), d \in Dirs :
            (step_table.steps_to_obstruction[d][c] = MARKER) = is_obstructed(step_table, c)

(* The free cells strictly between c and the next obstruction or the edge  *)
(* of the grid, walking direction d from c.                                *)
RECURSIVE FreeCellsBetween(_, _, _, _)
FreeCellsBetween(obs, size, c, d) ==
    LET next == CoordAdd(c, DirCoord(d))
    IN  IF ~Contained(next, size) \/ next \in obs
        THEN 0
        ELSE 1 + FreeCellsBetween(obs, size, next, d)

CellsToEdge(size, c, d) ==
    CASE d = North -> c[1]
      [] d = East  -> size[2] - 1 - c[2]
      [] d = South -> size[1] - 1 - c[1]
      [] OTHER     -> c[2]

RECURSIVE SlowUntilTurn(_, _, _)
SlowUntilTurn(t, size, g) ==
    LET adv == advance_guard_slow(t, size, g)
    IN  IF adv.kind # "some" \/ adv.guard.dir # g.dir
        THEN adv
        ELSE SlowUntilTurn(t, size, adv.guard)

(* C25: on the same StepTable and state, a fast advance gives the state    *)
(* the slow transition rule reaches by its single-cell moves followed by   *)
(* one turn, and the fast advance leaves the grid if and only if the slow  *)
(* moves do.                                                               *)
C25_FastAdvanceIsSlowMovesThenTurn ==
    (pc = "search" /\ walk = "loop" /\ Contained(hare.pos, room_size)) =>
        LET fast == advance_guard_fast(worker_table[1], room_size, hare)
            slow == SlowUntilTurn(worker_table[1], room_size, hare)
        IN  /\ fast.kind = slow.kind
            /\ fast.kind = "some" => fast.guard = slow.guard

C27_EntriesBoundedNoOverflow ==
    /\ failure # "overflow"
    /\ pc = "table" =>
         \A c \in Cells(room_size), d \in Dirs :
             \/ step_table.steps_to_obstruction[d][c] = MARKER
             \/ step_table.steps_to_obstruction[d][c]
                  <= (IF room_size[1] > room_size[2] THEN room_size[1] ELSE room_size[2])

(* C28: a slow-walk step changes exactly one of the guard's two fields:    *)
(* with zero steps remaining ahead it turns 90 degrees clockwise (North to *)
(* East to South to West to North) and keeps the position, otherwise it    *)
(* moves one cell in the facing direction and keeps the facing; and        *)
(* neither the slow walk nor the fast walk modifies a StepTable.           *)
C28_SlowStepTurnsOrMoves ==
    [][/\ (pc = "patrol_slow" /\ guard' # guard) =>
            /\ (guard'.pos = guard.pos) # (guard'.dir = guard.dir)
            /\ IF remaining_steps(step_table, guard.pos, guard.dir) = 0
               THEN /\ guard'.pos = guard.pos
                    /\ <<guard.dir, guard'.dir>> \in
                         {<<North, East>>, <<East, South>>, <<South, West>>, <<West, North>>}
               ELSE /\ guard'.dir = guard.dir
                    /\ guard'.pos = CoordAdd(guard.pos, DirCoord(guard.dir))
       /\ pc = "patrol_slow" =>
            (step_table' = step_table /\ worker_table' = worker_table)
       /\ (pc = "search" /\ walk \in {"idle", "loop"} /\ walk' \in {"loop", "some", "none"}) =>
            (step_table' = step_table /\ worker_table' = worker_table)]_vars

(* A slow walk that has turned and moved. *)
C28_Witness ==
    /\ pc = "patrol_slow"
    /\ guard.pos # problem_guard.pos
    /\ guard.dir # North

RECURSIVE IsPowerOfTwo(_)
IsPowerOfTwo(n) == (n = 1) \/ (n > 1 /\ n % 2 = 0 /\ IsPowerOfTwo(n \div 2))

(* C29: in _brent_cycle_detection power is a power of two and              *)
(* lambda <= power whenever the loop condition is evaluated; the tortoise  *)
(* is reset to the hare's state exactly when lambda equals power, power    *)
(* then doubles and lambda restarts at 0 (1 after the advance of the same  *)
(* iteration), so that the hare advances power = 2^k times between two     *)
(* resets; otherwise the tortoise and power stay and lambda counts the     *)
(* hare's advance.                                                         *)
C29_BrentPowerAndLambda ==
    [][/\ (pc' = "search" /\ walk' = "loop") =>
            (IsPowerOfTwo(power') /\ 1 <= lambda' /\ lambda' <= power')
       /\ (pc = "search" /\ walk = "idle" /\ walk' = "loop") =>
            (power' = 1 /\ lambda' = 1 /\ tortoise' = problem_guard)
       /\ (pc = "search" /\ walk = "loop" /\ walk' = "loop") =>
            IF lambda = power
            THEN tortoise' = hare /\ power' = 2 * power /\ lambda' = 1
            ELSE tortoise' = tortoise /\ power' = power /\ lambda' = lambda + 1
       /\ (pc = "search" /\ walk = "loop" /\ walk' = "loop") =>
            hare' = advance_guard_fast(worker_table[CloneFor(1)], room_size, hare).guard]_vars

(* The loop condition is evaluated after the second reset of the tortoise. *)
C29_Witness ==
    /\ pc = "search"
    /\ walk = "loop"
    /\ power = 4
    /\ lambda >= 1
    /\ tortoise # problem_guard

(* The cells lying behind pos for the matrix of direction d: those from    *)
(* which a walk in direction d arrives at pos, up to but not including the  *)
(* nearest obstruction of obs or the grid edge.                            *)
RECURSIVE CellsBehind(_, _, _, _)
CellsBehind(obs, size, c, d) ==
    LET prev == CoordAdd(c, CoordMul(-1, DirCoord(d)))
    IN  IF (prev \notin Cells(size)) \/ (prev \in obs)
        THEN {}
        ELSE {prev} \cup CellsBehind(obs, size, prev, d)

(* C30: add_obstruction(pos) and remove_obstruction(pos) change, in the    *)
(* matrix of direction d, only the entry of pos and the entries of the      *)
(* cells behind pos up to but not including the nearest obstruction behind  *)
(* it or the grid edge; every other entry and room_size stay unchanged.     *)
C30_OnlyCellsBehindChange ==
    [][\A pos \in Cells(room_size) :
         (AddObstruction(pos) \/ RemoveObstruction(pos)) =>
            /\ step_table'.room_size = step_table.room_size
            /\ room_size' = room_size
            /\ \A d \in Dirs, c \in Cells(room_size) :
                 (step_table'.steps_to_obstruction[d][c] # step_table.steps_to_obstruction[d][c])
                   => (c = pos \/ c \in CellsBehind(obstructed, room_size, pos, d))]_vars

====
